---- MODULE Spec2Model ----
(***************************************************************************)
(* Model of the SimplyCodes scraper: category discovery, the tree builder, *)
(* single-page scraping with blocked-page recovery and the retry loop, the *)
(* coupon extractor, repeated tree builds with the saved tree file, and    *)
(* the run-level operations of main.py with their category loops, and the *)
(* validator's re-location of a saved coupon on the page.                  *)
(*                                                                         *)
(* Text is a sequence of tokens.  A token is the separator "/", the blank  *)
(* " ", or an atom (a run of other characters).  Python's str.split('/'),  *)
(* str.strip(), startswith('/') and the f-strings are operators over such  *)
(* sequences; a slug (one split segment) is an atom, "" when empty.        *)
(***************************************************************************)
EXTENDS Integers, Sequences, FiniteSets, TLC

VARIABLES
    categories,   \* organize_data_tree: the `categories` argument
    coupons,      \* organize_data_tree: the `coupons` argument
    tree,         \* organize_data_tree: the returned tree
    tb_pc,        \* "idle" | "input" | "built"
    page,         \* the categories page: its anchors in DOM order
    dc_pc,        \* discover_categories: "idle" | "ready" | "done"
    dc_outcome,   \* how the call went: "ok", "goto_raised", "blocked", ...
    dc_main,      \* _extract_categories: main_categories_data
    dc_result,    \* the list discover_categories returned
    rs_pc,        \* scrape_with_retry: "idle" | "loop" | "blocked" | "returned" | "done"
    max_retries,  \* scrape_with_retry: the max_retries argument
    attempt,      \* scrape_with_retry: the loop variable
    rs_result,    \* what scrape_with_retry returned
    sc_result,    \* what the last scrape() returned
    sc,           \* the browser calls of the scrape() in progress or just ended
    rs_log,       \* the result of every scrape() call so far, in order
    rs_waits,     \* the seconds of every backoff sleep so far, in order
    rs_nav,       \* every goto and reload so far, in order, with the User-Agent it was sent with
    user_agent,   \* the User-Agent the page sends: "default" | "alternate"
    ex_content,   \* _extract_coupons: what the page shows (grid, blocks)
    ex_pc,        \* _extract_coupons: "idle" | "ready" | "done"
    ex_result,    \* _extract_coupons: the returned list
    rb_pc,        \* repeated builds: "idle" | "input" | "built" | "saved"
    rb_categories, \* the `categories` argument of the current organize_data_tree call
    rb_coupons,   \* the `coupons` argument of the current call
    rb_tree,      \* what the latest organize_data_tree call returned
    rb_first,     \* the arguments and the result of the first call
    tree_file,    \* data/category_tree.json: whether written, and its content
    run_op,       \* the run-level operation under way
    run_pc,       \* where it stands: "idle" | "start" | ... | "exit"
    run_exit,     \* how it ended: "returned", "returned_early", "..._raised"
    sessions,     \* every SimplyCodesScraper acquired so far: "open" | "closed"
    resources,    \* page, context, browser and playwright of each of them
    run_loaded,   \* the categories discovered or loaded from discovered_categories.json
    max_categories, \* the cap: whether given (not None), and its integer value
    run_categories, \* `categories` after the cap
    run_idx,      \* how many categories the loop has been through
    run_visited,  \* the list positions of the categories the loop began, in order
    run_scrapes,  \* every self.scrape() call of the loop: category position, result
    all_coupons,  \* the flat list collected by the loop
    successful_categories, \* the loop's counter
    tree_writes,  \* every tree handed to save_tree_structure in this run
    flat_writes,  \* every list written to comprehensive_coupons.json in this run
    vl_page,      \* the makeup page: its div[role='button'] elements in document order
    vl_pc,        \* single scrape, then validation: "idle" | "ready" | "scraped" | "done"
    vl_file,      \* data/extracted_coupons.json: whether written, and its content
    vl_outcome,   \* validate_first_coupon: "none" | "no_file" | "no_coupons" | ...
    vl_block      \* the document position of the div it selected, 0 when none

\* ---------------------------------------------------------------- bounds
MaxCats == 2
MaxCoupons == 2
MaxAnchors == 2
MaxRetriesArg == 2
MaxBlocks == 3
MaxRebuildCats == 1
MaxRunCats == 2
MaxDivs == 3

\* ------------------------------------------------------------------ text
SLASH == "/"
BLANK == " "

EmptyMap == [k \in {} |-> 0]

Put(m, k, v) == [x \in (DOMAIN m) \cup {k} |-> IF x = k THEN v ELSE m[x]]

\* dict.get(key, default)
Get(d, key, default) == IF key \in DOMAIN d THEN d[key] ELSE default

\* a slug interpolated into an f-string
Str(slug) == IF slug = "" THEN <<>> ELSE <<slug>>

RECURSIVE SplitFrom(_, _, _)
SplitFrom(s, i, cur) ==
    IF i > Len(s) THEN <<cur>>
    ELSE IF s[i] = SLASH THEN <<cur>> \o SplitFrom(s, i + 1, "")
    ELSE SplitFrom(s, i + 1, s[i])

\* href.split('/')
Split(s) == SplitFrom(s, 1, "")

\* href.startswith('/')
StartsWithSlash(s) == Len(s) > 0 /\ s[1] = SLASH

RECURSIVE LStrip(_)
LStrip(s) == IF Len(s) > 0 /\ s[1] = BLANK THEN LStrip(Tail(s)) ELSE s

RECURSIVE RStrip(_)
RStrip(s) ==
    IF Len(s) > 0 /\ s[Len(s)] = BLANK THEN RStrip(SubSeq(s, 1, Len(s) - 1)) ELSE s

\* text.strip()
Strip(s) == RStrip(LStrip(s))

SiteRoot == <<"https:", SLASH, SLASH, "simplycodes.com">>

\* f"https://simplycodes.com{href}" when href starts with '/', else href
FullUrl(href) == IF StartsWithSlash(href) THEN SiteRoot \o href ELSE href

\* slug.replace('-', ' ').title()
TitleCase(slug) ==
    CASE slug = "beauty" -> <<"Beauty">>
      [] slug = "makeup" -> <<"Makeup">>
      [] slug = "lipstick" -> <<"Lipstick">>
      [] slug = "skin-care" -> <<"Skin", BLANK, "Care">>
      [] slug = "category" -> <<"Category">>
      [] slug = "simplycodes.com" -> <<"Simplycodes.Com">>
      [] slug = "https:" -> <<"Https:">>
      [] OTHER -> Str(slug)

\* f"/category/{level1}"
Level1Path(level1) == <<SLASH, "category", SLASH>> \o Str(level1)

\* f"/category/{level1}/{level2}"
Level2Path(level1, level2) == Level1Path(level1) \o <<SLASH>> \o Str(level2)

\* f"{level1} > {level2}"
ParentLabel(level1, level2) == Str(level1) \o <<BLANK, ">", BLANK>> \o Str(level2)

\* ------------------------------------------------- discovered records
\* a plausible wrong classification: `>= 5` written `> 5`
MainRecordOffByOne(href, title) ==
    LET path_parts == Split(href)
        level == IF Len(path_parts) = 4 THEN 2
                 ELSE IF Len(path_parts) > 5 THEN 3
                 ELSE 2
    IN [title |-> title, url |-> FullUrl(href), category_path |-> href, level |-> level]

\* the record _extract_categories appends for a main-category link
MainRecord(href, title) ==
    LET path_parts == Split(href)
        level == IF Len(path_parts) = 4 THEN 2
                 ELSE IF Len(path_parts) >= 5 THEN 3
                 ELSE 2
    IN [title |-> title, url |-> FullUrl(href), category_path |-> href, level |-> level]

\* the record _extract_level3_subcategories_from_main_page appends
Level3Record(href, title) ==
    LET path_parts == Split(href)
        level1 == IF Len(path_parts) > 2 THEN path_parts[3] ELSE ""
        level2 == IF Len(path_parts) > 3 THEN path_parts[4] ELSE ""
        level3 == IF Len(path_parts) > 4 THEN path_parts[5] ELSE ""
    IN [title |-> title, url |-> FullUrl(href), category_path |-> href, level |-> 3,
        parent_category |-> ParentLabel(level1, level2),
        parent_path |-> Level2Path(level1, level2),
        level1 |-> level1, level2 |-> level2, level3 |-> level3]

\* ------------------------------------------------------ tree builder
Level1Node(level1) ==
    [category_name |-> TitleCase(level1),
     category_path |-> Level1Path(level1),
     subcategories |-> EmptyMap]

\* lines 523-528 / 548-553: ensure the level-1 node exists
EnsureLevel1(t, level1) ==
    IF level1 \in DOMAIN t THEN t ELSE Put(t, level1, Level1Node(level1))

\* lines 515-537: a level-2 link
AddLevel2(t, category) ==
    LET path_parts == Split(category.category_path) IN
    IF Len(path_parts) >= 4
    THEN LET level1 == path_parts[3]
             level2 == path_parts[4]
             t1 == EnsureLevel1(t, level1)
             node == [subcategories_name |-> category.title,
                      subcategories_path |-> category.category_path,
                      url |-> category.url,
                      level |-> 2,
                      parent_category |-> Get(category, "parent_category", <<>>)]
         IN [t1 EXCEPT ![level1].subcategories = Put(@, level2, node)]
    ELSE t

\* lines 539-573: a level-3 link
AddLevel3(t, category) ==
    LET level1 == Get(category, "level1", "")
        level2 == Get(category, "level2", "")
        level3 == Get(category, "level3", "")
    IN
    IF level1 # "" /\ level2 # "" /\ level3 # ""
    THEN LET t1 == EnsureLevel1(t, level1)
             subs == t1[level1].subcategories
             default2 == [subcategories_name |-> TitleCase(level2),
                          subcategories_path |-> Level2Path(level1, level2),
                          url |-> SiteRoot \o Level2Path(level1, level2),
                          level |-> 2,
                          parent_category |-> Str(level1)]
             node2 == IF level2 \in DOMAIN subs THEN subs[level2] ELSE default2
             subs3 == Get(node2, "subcategories", EmptyMap)
             node3 == [subcategories_name |-> category.title,
                       subcategories_path |-> category.category_path,
                       url |-> category.url,
                       level |-> 3,
                       parent_category |-> ParentLabel(level1, level2)]
             node2b == [k \in (DOMAIN node2) \cup {"subcategories"} |->
                          IF k = "subcategories" THEN Put(subs3, level3, node3)
                          ELSE node2[k]]
         IN [t1 EXCEPT ![level1].subcategories = Put(@, level2, node2b)]
    ELSE t

\* one iteration of the loop of line 512
AddCategory(t, category) ==
    LET level == Get(category, "level", 2) IN
    IF level = 2 THEN AddLevel2(t, category)
    ELSE IF level = 3 THEN AddLevel3(t, category)
    ELSE t

RECURSIVE AddCategories(_, _, _)
AddCategories(t, cats, i) ==
    IF i > Len(cats) THEN t ELSE AddCategories(AddCategory(t, cats[i]), cats, i + 1)

\* a plausible wrong builder: every coupon gets a node made for its path
RECURSIVE InventNodes(_, _, _)
InventNodes(t, cps, i) ==
    IF i > Len(cps) THEN t
    ELSE LET path_parts == Split(cps[i].category_path)
             level1 == path_parts[3]
             level2 == path_parts[4]
             t1 == EnsureLevel1(t, level1)
             node == [subcategories_name |-> TitleCase(level2),
                      subcategories_path |-> cps[i].category_path,
                      url |-> FullUrl(cps[i].category_path),
                      level |-> 2,
                      parent_category |-> Str(level1)]
         IN InventNodes(
                IF level2 \in DOMAIN t1[level1].subcategories THEN t
                ELSE [t1 EXCEPT ![level1].subcategories = Put(@, level2, node)],
                cps, i + 1)

organize_data_tree_inventing(cats, cps) == InventNodes(AddCategories(EmptyMap, cats, 1), cps, 1)

\* organize_data_tree(categories, coupons): the coupons are never read
organize_data_tree(cats, cps) == AddCategories(EmptyMap, cats, 1)

\* ------------------------------------------------ tree builder inputs
Beauty == <<SLASH, "category", SLASH, "beauty">>
BeautyMakeup == Beauty \o <<SLASH, "makeup">>
BeautySkinCare == Beauty \o <<SLASH, "skin-care">>
BeautyMakeupLipstick == BeautyMakeup \o <<SLASH, "lipstick">>
AbsBeautyMakeup == SiteRoot \o BeautyMakeup

HrefPool == {Beauty, BeautyMakeup, BeautyMakeupLipstick, AbsBeautyMakeup}
TitlePool == {<<"Makeup">>, <<"Lip", BLANK, "Care">>}

\* every record the discoverer can emit for the pooled hrefs and titles
CategoryPool ==
    {MainRecord(h, t) : h \in HrefPool, t \in TitlePool}
    \cup {Level3Record(h, t) : h \in {x \in HrefPool : Len(Split(x)) >= 5}, t \in TitlePool}

Coupon(brand, code, idx, path) ==
    [brand |-> brand, code |-> code, description |-> "10% off",
     button_index |-> idx, category_path |-> path]

CouponPool ==
    {Coupon("Foo", "SAVE10", 0, BeautyMakeup),
     Coupon("Bar", "BAR5", 1, BeautyMakeup),
     Coupon("Foo", "SAVE10", 0, BeautyMakeupLipstick),
     Coupon("Foo", "SAVE10", 0, BeautySkinCare)}

SeqsUpTo(S, n) == UNION {[1..k -> S] : k \in 0..n}

vars == <<categories, coupons, tree, tb_pc, page, dc_pc, dc_outcome, dc_main, dc_result,
          rs_pc, max_retries, attempt, rs_result, sc_result, sc, rs_log, rs_waits, rs_nav, user_agent,
          ex_content, ex_pc, ex_result,
          rb_pc, rb_categories, rb_coupons, rb_tree, rb_first, tree_file,
          run_op, run_pc, run_exit, sessions, resources, run_loaded, max_categories, run_categories,
          run_idx, run_visited, run_scrapes, all_coupons, successful_categories,
          tree_writes, flat_writes,
          vl_page, vl_pc, vl_file, vl_outcome, vl_block>>

extractVars == <<ex_content, ex_pc, ex_result>>

\* the state of the parts modelled further down
rebuildVars == <<rb_pc, rb_categories, rb_coupons, rb_tree, rb_first, tree_file>>

runVars == <<run_op, run_pc, run_exit, sessions, resources, run_loaded, max_categories, run_categories,
             run_idx, run_visited, run_scrapes, all_coupons, successful_categories,
             tree_writes, flat_writes>>

validateVars == <<vl_page, vl_pc, vl_file, vl_outcome, vl_block>>

laterVars == <<extractVars, rebuildVars, runVars, validateVars>>

retryVars ==
    <<rs_pc, max_retries, attempt, rs_result, sc_result, sc, rs_log, rs_waits, rs_nav, user_agent>>

treeVars == <<categories, coupons, tree, tb_pc>>
discVars == <<page, dc_pc, dc_outcome, dc_main, dc_result>>

TreeIdle == categories = <<>> /\ coupons = <<>> /\ tree = EmptyMap /\ tb_pc = "idle"
DiscIdle ==
    page = <<>> /\ dc_pc = "idle" /\ dc_outcome = "none" /\ dc_main = <<>> /\ dc_result = <<>>

NoGrid == [grid |-> FALSE, blocks |-> <<>>, raises |-> FALSE]

\* no browser call made yet
FreshScrape ==
    [gotos |-> 0, titles |-> 0, swaps |-> 0, reloads |-> 0, recovering |-> FALSE,
     fault |-> "none", title |-> <<>>, content |-> NoGrid]

ExtractIdle == ex_content = NoGrid /\ ex_pc = "idle" /\ ex_result = <<>>

NoFile == [written |-> FALSE, content |-> EmptyMap]
NoCall == [called |-> FALSE, categories |-> <<>>, coupons |-> <<>>, tree |-> EmptyMap]

RebuildIdle ==
    /\ rb_pc = "idle" /\ rb_categories = <<>> /\ rb_coupons = <<>> /\ rb_tree = EmptyMap
    /\ rb_first = NoCall /\ tree_file = NoFile

\* max_categories=None
NoCap == [given |-> FALSE, value |-> 0]

RunIdle ==
    /\ run_op = "none" /\ run_pc = "idle" /\ run_exit = "none" /\ sessions = <<>>
    /\ resources = <<>>
    /\ run_loaded = <<>> /\ max_categories = NoCap /\ run_categories = <<>>
    /\ run_idx = 0 /\ run_visited = <<>> /\ run_scrapes = <<>>
    /\ all_coupons = <<>> /\ successful_categories = 0
    /\ tree_writes = <<>> /\ flat_writes = <<>>

\* data/extracted_coupons.json not written yet
NoCouponFile == [written |-> FALSE, content |-> <<>>]

ValidateIdle ==
    /\ vl_page = <<>> /\ vl_pc = "idle" /\ vl_file = NoCouponFile
    /\ vl_outcome = "none" /\ vl_block = 0

LaterIdle == ExtractIdle /\ RebuildIdle /\ RunIdle /\ ValidateIdle

RetryIdle ==
    /\ rs_pc = "idle" /\ max_retries = 0 /\ attempt = 0 /\ rs_result = <<>> /\ sc_result = <<>>
    /\ sc = FreshScrape /\ rs_log = <<>> /\ rs_waits = <<>> /\ user_agent = "default"
    /\ rs_nav = <<>>

\* ------------------------------------------------ tree builder runs
InitTree ==
    /\ categories \in SeqsUpTo(CategoryPool, MaxCats)
    /\ coupons \in SeqsUpTo(CouponPool, MaxCoupons)
    /\ tree = EmptyMap
    /\ tb_pc = "input"
    /\ DiscIdle
    /\ RetryIdle
    /\ LaterIdle

Build ==
    /\ tb_pc = "input"
    /\ tree' = organize_data_tree(categories, coupons)
    /\ tb_pc' = "built"
    /\ UNCHANGED <<categories, coupons>>
    /\ UNCHANGED discVars
    /\ UNCHANGED retryVars
    /\ UNCHANGED laterVars

NextTree == Build

SpecTree == InitTree /\ [][NextTree]_vars

\* ------------------------------------------------ tree builder claims
\* <<level1, level2>> of every level-2 node of t
Level2Keys(t) == {<<a, b>> : a \in DOMAIN t, b \in UNION {DOMAIN t[x].subcategories : x \in DOMAIN t}}
                 \cap UNION {{<<a, b>> : b \in DOMAIN t[a].subcategories} : a \in DOMAIN t}

Level2NodeOf(t, k) == t[k[1]].subcategories[k[2]]

Level3Map(t, k) == Get(Level2NodeOf(t, k), "subcategories", EmptyMap)

\* every level-2 and level-3 node of t
LeafNodes(t) ==
    {Level2NodeOf(t, k) : k \in Level2Keys(t)}
    \cup UNION {{Level3Map(t, k)[c] : c \in DOMAIN Level3Map(t, k)} : k \in Level2Keys(t)}

NodeCoupons(node) == Get(node, "coupons", <<>>)

Stripped(coupon) ==
    [brand |-> coupon.brand, code |-> coupon.code,
     description |-> coupon.description, button_index |-> coupon.button_index]

RECURSIVE SumLen(_)
SumLen(nodes) ==
    IF nodes = {} THEN 0
    ELSE LET n == CHOOSE x \in nodes : TRUE
         IN Len(NodeCoupons(n)) + SumLen(nodes \ {n})

AttachedCount(t) == SumLen(LeafNodes(t))

Matches(t, coupon) == \E n \in LeafNodes(t) : n.subcategories_path = coupon.category_path

\* C1: every input coupon whose category_path is the path of a level-2 or
\* level-3 node is held, stripped of category_path, in that node's coupons list.
C1_CouponAttachedToItsNode ==
    tb_pc = "built" =>
        \A i \in 1..Len(coupons) : \A n \in LeafNodes(tree) :
            n.subcategories_path = coupons[i].category_path =>
                /\ "coupons" \in DOMAIN n
                /\ \E j \in 1..Len(n.coupons) : n.coupons[j] = Stripped(coupons[i])

\* C2: every level-2 and level-3 node of the returned tree owns a coupons list.
C2_EveryLeafOwnsCoupons ==
    tb_pc = "built" => \A n \in LeafNodes(tree) : "coupons" \in DOMAIN n

\* C3: the number of attached coupons is at most the number of input coupons,
\* with equality exactly when every input coupon matches a leaf node.
C3_AttachmentConservative ==
    tb_pc = "built" =>
        /\ AttachedCount(tree) <= Len(coupons)
        /\ (AttachedCount(tree) = Len(coupons))
             <=> (\A i \in 1..Len(coupons) : Matches(tree, coupons[i]))

\* the slugs a category list calls for, read off the records themselves
IsLevel2Link(c) == Get(c, "level", 2) = 2 /\ Len(Split(c.category_path)) >= 4
IsLevel3Link(c) ==
    /\ Get(c, "level", 2) = 3
    /\ Get(c, "level1", "") # "" /\ Get(c, "level2", "") # "" /\ Get(c, "level3", "") # ""

Slugs12(c) ==
    IF IsLevel2Link(c) THEN <<Split(c.category_path)[3], Split(c.category_path)[4]>>
    ELSE <<c.level1, c.level2>>

ExpectedLevel2Keys(cats) ==
    {Slugs12(cats[i]) : i \in {x \in 1..Len(cats) : IsLevel2Link(cats[x]) \/ IsLevel3Link(cats[x])}}

\* a level-3 node survives unless a later level-2 link rewrites its parent
ExpectedLevel3Keys(cats) ==
    {<<cats[i].level1, cats[i].level2, cats[i].level3>> :
        i \in {x \in 1..Len(cats) :
                /\ IsLevel3Link(cats[x])
                /\ \A y \in (x + 1)..Len(cats) :
                      ~(IsLevel2Link(cats[y]) /\ Slugs12(cats[y]) = Slugs12(cats[x]))}}

Level3Keys(t) ==
    UNION {{<<k[1], k[2], c>> : c \in DOMAIN Level3Map(t, k)} : k \in Level2Keys(t)}

\* C4: the nodes of the tree are those the categories call for, whatever the
\* coupons are, and a coupon matching no node is held by no node.
C4_UnmatchedCouponDropped ==
    tb_pc = "built" =>
        /\ DOMAIN tree = {k[1] : k \in ExpectedLevel2Keys(categories)}
        /\ Level2Keys(tree) = ExpectedLevel2Keys(categories)
        /\ Level3Keys(tree) = ExpectedLevel3Keys(categories)
        /\ \A i \in 1..Len(coupons) :
              (\A n \in LeafNodes(organize_data_tree(categories, <<>>)) :
                   n.subcategories_path # coupons[i].category_path)
              => \A n \in LeafNodes(tree) :
                   \A j \in 1..Len(NodeCoupons(n)) :
                       NodeCoupons(n)[j] # Stripped(coupons[i])

\* a built tree with a makeup node and an input coupon of the absent skin-care node
C4_Witness ==
    /\ tb_pc = "built"
    /\ <<"beauty", "makeup">> \in Level2Keys(tree)
    /\ \E i \in 1..Len(coupons) : coupons[i].category_path = BeautySkinCare

\* C14: every node's path is the join of its ancestor slugs: a level-1 node
\* keyed s1 has category_path /category/s1, a level-2 node keyed s2 under s1
\* has subcategories_path /category/s1/s2, and a level-3 node keyed s3 under
\* s1/s2 has subcategories_path /category/s1/s2/s3.
C14_PathsFromAncestorSlugs ==
    tb_pc = "built" =>
        /\ \A s1 \in DOMAIN tree :
              tree[s1].category_path = <<SLASH, "category", SLASH, s1>>
        /\ \A k \in Level2Keys(tree) :
              Level2NodeOf(tree, k).subcategories_path
                 = <<SLASH, "category", SLASH, k[1], SLASH, k[2]>>
        /\ \A k \in Level3Keys(tree) :
              Level3Map(tree, <<k[1], k[2]>>)[k[3]].subcategories_path
                 = <<SLASH, "category", SLASH, k[1], SLASH, k[2], SLASH, k[3]>>

\* C20: every level-3 link of the input whose path has at least 5 segments
\* has a level-3 node keyed by its level-3 slug under its level-2 and level-1
\* slugs, the slugs being those of the path, whether or not the record
\* carries level1/level2/level3 fields.
C20_EveryLevel3LinkHasNode ==
    tb_pc = "built" =>
        \A i \in 1..Len(categories) :
            (Get(categories[i], "level", 2) = 3
                /\ Len(Split(categories[i].category_path)) >= 5)
            => <<Split(categories[i].category_path)[3],
                 Split(categories[i].category_path)[4],
                 Split(categories[i].category_path)[5]>> \in Level3Keys(tree)

\* the orderings of a list of n items
Orderings(n) == {f \in [1..n -> 1..n] : \A i, j \in 1..n : f[i] = f[j] => i = j}

\* C24: the tree does not depend on the order of the category list: every
\* permutation of the categories gives the tree that was built, so a level-3
\* node is kept when the level-2 link of its parent comes after it.
C24_OrderIndependent ==
    tb_pc = "built" =>
        \A f \in Orderings(Len(categories)) :
            organize_data_tree([i \in 1..Len(categories) |-> categories[f[i]]], coupons) = tree

\* ------------------------------------------------------- block signal
\* title.lower(), atom by atom
Lower(atom) ==
    CASE atom = "Forbidden" -> "forbidden"
      [] atom = "FORBIDDEN" -> "forbidden"
      [] atom = "Categories" -> "categories"
      [] atom = "Access" -> "access"
      [] atom = "Makeup" -> "makeup"
      [] atom = "Coupons" -> "coupons"
      [] OTHER -> atom

\* "403" in title or "forbidden" in title.lower()
IsBlocked(title) ==
    \/ \E i \in 1..Len(title) : title[i] = "403"
    \/ \E i \in 1..Len(title) : Lower(title[i]) = "forbidden"

\* ------------------------------------------------- category discoverer
\* An anchor of the page: its href attribute (<<>> when absent), its inner
\* text, the part of the page it sits in ("title": a link in a category card's
\* title div; "rounded": another link inside a rounded container; "nested":
\* the link of an li of a nested list inside an overflow-hidden div), and the
\* read that raises on it ("attr": get_attribute, "text": inner_text).
Anchor(href, text, region, err) == [href |-> href, text |-> text, region |-> region, err |-> err]

\* href*="/category/"
ContainsCategory(href) ==
    \E i \in 1..(Len(href) - 2) :
        href[i] = SLASH /\ href[i + 1] = "category" /\ href[i + 2] = SLASH

InTitle(a) == a.region = "title"
HasCategoryHref(a) == ContainsCategory(a.href)
InRounded(a) == a.region \in {"title", "rounded"}
InNested(a) == a.region = "nested"

\* 'div.flex.flex-row.items-center.justify-between.rounded-16 div.title a'
Selector1(pg) == SelectSeq(pg, InTitle)
\* 'a[href*="/category/"]'
Selector2(pg) == SelectSeq(pg, HasCategoryHref)
\* 'div[class*="category"] a, div[class*="rounded"] a'
Selector3(pg) == SelectSeq(pg, InRounded)
\* div.overflow-hidden > ul.ml-6... > li > a
NestedLinks(pg) == SelectSeq(pg, InNested)

\* lines 95-110: the union of the three selectors' matches
MainCategoryLinks(pg) == Selector1(pg) \o Selector2(pg) \o Selector3(pg)

\* a plausible wrong de-duplication: the seen-set is never consulted
RECURSIVE UniqueLinksNoSeen(_, _, _, _)
UniqueLinksNoSeen(links, i, seen, unique) ==
    IF i > Len(links) THEN unique
    ELSE IF links[i].err = "attr" THEN UniqueLinksNoSeen(links, i + 1, seen, unique)
    ELSE IF links[i].href # <<>>
         THEN UniqueLinksNoSeen(links, i + 1, seen \cup {links[i].href}, Append(unique, links[i]))
         ELSE UniqueLinksNoSeen(links, i + 1, seen, unique)

\* lines 112-124: remove duplicates based on href, first seen wins
RECURSIVE UniqueLinks(_, _, _, _)
UniqueLinks(links, i, seen, unique) ==
    IF i > Len(links) THEN unique
    ELSE IF links[i].err = "attr" THEN UniqueLinks(links, i + 1, seen, unique)
    ELSE IF links[i].href # <<>> /\ links[i].href \notin seen
         THEN UniqueLinks(links, i + 1, seen \cup {links[i].href}, Append(unique, links[i]))
         ELSE UniqueLinks(links, i + 1, seen, unique)

\* a plausible wrong loop: the try encloses the loop, an error ends it
RECURSIVE MainCategoriesDataAborting(_, _)
MainCategoriesDataAborting(links, i) ==
    IF i > Len(links) THEN <<>>
    ELSE LET link == links[i]
             title == Strip(link.text)
             rest == MainCategoriesDataAborting(links, i + 1)
         IN IF link.err # "none" THEN <<>>
            ELSE IF link.href # <<>> /\ title # <<>>
                 THEN <<MainRecord(link.href, title)>> \o rest
                 ELSE rest

\* lines 129-161: one record per unique link that has an href and a title
RECURSIVE MainCategoriesData(_, _)
MainCategoriesData(links, i) ==
    IF i > Len(links) THEN <<>>
    ELSE LET link == links[i]
             title == Strip(link.text)
             rest == MainCategoriesData(links, i + 1)
         IN IF link.err # "none" THEN rest
            ELSE IF link.href # <<>> /\ title # <<>>
                 THEN <<MainRecord(link.href, title)>> \o rest
                 ELSE rest

\* lines 178-246: the level-3 links of the nested lists
RECURSIVE Level3Subcategories(_, _)
Level3Subcategories(links, i) ==
    IF i > Len(links) THEN <<>>
    ELSE LET link == links[i]
             title == Strip(link.text)
             rest == Level3Subcategories(links, i + 1)
         IN IF link.err # "none" THEN rest
            ELSE IF link.href # <<>> /\ title # <<>> /\ Len(Split(link.href)) >= 5
                 THEN <<Level3Record(link.href, title)>> \o rest
                 ELSE rest

\* _extract_level3_subcategories_from_main_page; fault "query3": the query
\* for the overflow-hidden divs raises
_extract_level3_subcategories_from_main_page(pg, fault) ==
    IF fault = "query3" THEN <<>> ELSE Level3Subcategories(NestedLinks(pg), 1)

\* main_categories_data of _extract_categories (<<>> when it did not get there)
_main_categories_data(pg) ==
    MainCategoriesData(UniqueLinks(MainCategoryLinks(pg), 1, {}, <<>>), 1)

\* _extract_categories; fault "load": wait_for_load_state or a selector query raises
_extract_categories(pg, fault) ==
    IF fault = "load" THEN <<>>
    ELSE _main_categories_data(pg) \o _extract_level3_subcategories_from_main_page(pg, fault)

PageTitles ==
    {<<"Categories">>, <<"403", BLANK, "Forbidden">>, <<"Access", BLANK, "FORBIDDEN">>}

Faults == {"none", "load", "query3"}

\* discover_categories: how the call ends
Outcome(nav, title, fault) ==
    IF nav = "raise" THEN "goto_raised"
    ELSE IF IsBlocked(title) THEN "blocked"
    ELSE IF fault = "load" THEN "extract_raised"
    ELSE IF fault = "query3" THEN "level3_raised"
    ELSE "ok"

HrefTexts == {<<BLANK>>, <<"Makeup">>, <<BLANK, "Lip", BLANK, "Care", BLANK>>}

AnchorPool ==
    {Anchor(h, t, r, "none") :
        h \in HrefPool \cup {<<>>}, t \in HrefTexts, r \in {"title", "rounded", "nested"}}
    \cup {Anchor(BeautyMakeup, <<"Makeup">>, "title", "attr"),
          Anchor(BeautyMakeup, <<"Makeup">>, "title", "text"),
          Anchor(BeautyMakeupLipstick, <<"Makeup">>, "nested", "text")}

InitDisc ==
    /\ page \in SeqsUpTo(AnchorPool, MaxAnchors)
    /\ dc_pc = "ready"
    /\ dc_outcome = "none"
    /\ dc_main = <<>>
    /\ dc_result = <<>>
    /\ TreeIdle
    /\ RetryIdle
    /\ LaterIdle

\* discover_categories(): goto, title check, _extract_categories
Discover ==
    /\ dc_pc = "ready"
    /\ \E nav \in {"ok", "raise"}, title \in PageTitles, fault \in Faults :
          LET out == Outcome(nav, title, fault) IN
          /\ dc_outcome' = out
          /\ dc_main' = IF out \in {"ok", "level3_raised"} THEN _main_categories_data(page) ELSE <<>>
          /\ dc_result' = IF out \in {"goto_raised", "blocked"} THEN <<>>
                          ELSE _extract_categories(page, fault)
    /\ dc_pc' = "done"
    /\ UNCHANGED page
    /\ UNCHANGED treeVars
    /\ UNCHANGED retryVars
    /\ UNCHANGED laterVars

NextDisc == Discover

SpecDisc == InitDisc /\ [][NextDisc]_vars

\* --------------------------------------------------- discoverer claims
Segments(c) == Len(Split(c.category_path))

\* C5 as stated: level 2 exactly for 4 segments, level 3 exactly for 5 or
\* more, and no emitted link has another segment count.
C5_LevelIffSegmentCount ==
    dc_pc = "done" =>
        \A i \in 1..Len(dc_result) :
            /\ (dc_result[i].level = 2) <=> (Segments(dc_result[i]) = 4)
            /\ (dc_result[i].level = 3) <=> (Segments(dc_result[i]) >= 5)
            /\ Segments(dc_result[i]) >= 4

\* C5 amended: level 3 exactly for 5 or more segments, level 2 for every
\* other emitted link, those with fewer than 4 segments included.
C5_LevelBySegmentCount ==
    dc_pc = "done" =>
        \A i \in 1..Len(dc_result) :
            /\ dc_result[i].level \in {2, 3}
            /\ (dc_result[i].level = 3) <=> (Segments(dc_result[i]) >= 5)
            /\ (dc_result[i].level = 2) <=> (Segments(dc_result[i]) <= 4)

\* links of 3, 4 and 5-or-more segments have all been classified
C5_Witness ==
    /\ dc_pc = "done"
    /\ \E i \in 1..Len(dc_result) : Segments(dc_result[i]) = 3 /\ dc_result[i].level = 2
    /\ \E i \in 1..Len(dc_result) : Segments(dc_result[i]) >= 5 /\ dc_result[i].level = 3

\* C6: no two entries of the returned sequence have the same category_path.
C6_PathsUnique ==
    dc_pc = "done" =>
        \A i, j \in 1..Len(dc_result) :
            i < j => dc_result[i].category_path # dc_result[j].category_path

\* the raw matches whose href can be read and is not empty
Readable(links) == {k \in 1..Len(links) : links[k].err # "attr" /\ links[k].href # <<>>}

DistinctHrefs(links) == {links[k].href : k \in Readable(links)}

\* the first raw match, in match order, that carries href h
FirstOf(links, h) ==
    CHOOSE k \in Readable(links) :
        /\ links[k].href = h
        /\ \A m \in Readable(links) : links[m].href = h => k <= m

\* the first match of h can be turned into a record
FirstUsable(links, h) ==
    links[FirstOf(links, h)].err = "none" /\ Strip(links[FirstOf(links, h)].text) # <<>>

Extracted == dc_pc = "done" /\ dc_outcome \in {"ok", "level3_raised"}

\* C7 as stated: M distinct hrefs among the raw matches give exactly M main
\* entries, each built from the first match of its href.
C7_ExactlyOnePerHref ==
    Extracted =>
        LET raw == MainCategoryLinks(page) IN
        /\ Len(dc_main) = Cardinality(DistinctHrefs(raw))
        /\ \A i \in 1..Len(dc_main) :
              dc_main[i].title = Strip(raw[FirstOf(raw, dc_main[i].category_path)].text)

\* C7 amended: one main entry for each distinct href whose first match has a
\* readable, non-blank text, hence at most M; in order of first match, each
\* built from the first match of its href.
C7_OnePerUsableHref ==
    Extracted =>
        LET raw == MainCategoryLinks(page) IN
        /\ Len(dc_main) <= Cardinality(DistinctHrefs(raw))
        /\ {dc_main[i].category_path : i \in 1..Len(dc_main)}
             = {h \in DistinctHrefs(raw) : FirstUsable(raw, h)}
        /\ \A i \in 1..Len(dc_main) :
              /\ dc_main[i].category_path \in DistinctHrefs(raw)
              /\ dc_main[i].title = Strip(raw[FirstOf(raw, dc_main[i].category_path)].text)
              /\ dc_main[i].url = FullUrl(dc_main[i].category_path)
        /\ \A i, j \in 1..Len(dc_main) :
              i < j => FirstOf(raw, dc_main[i].category_path)
                         < FirstOf(raw, dc_main[j].category_path)

\* two anchors with the same href and different texts, collapsed to the first
C7_Witness ==
    /\ Extracted
    /\ Len(page) = 2
    /\ page[1].href = page[2].href
    /\ page[1].err = "none" /\ page[2].err = "none"
    /\ Strip(page[1].text) # <<>> /\ Strip(page[2].text) # <<>>
    /\ Strip(page[1].text) # Strip(page[2].text)
    /\ page[1].region = "rounded" /\ page[2].region = "title"
    /\ Len(dc_main) = 1
    /\ Len(MainCategoryLinks(page)) > 1

\* a link that can be read and has an href and a title
Usable(link) == link.err = "none" /\ link.href # <<>> /\ Strip(link.text) # <<>>

C25_TitledHrefNeverLost ==
    Extracted =>
        LET raw == MainCategoryLinks(page) IN
        \A k \in Readable(raw) :
            Usable(raw[k])
            => \E i \in 1..Len(dc_main) : dc_main[i].category_path = raw[k].href

\* ---------------------------------------------------- coupon extractor
\* a sub-element of a coupon block: present or not, and its inner text
Elem(text) == [present |-> TRUE, text |-> text]
Missing == [present |-> FALSE, text |-> <<>>]

\* a div[role='button'] of the grid: its h3, its code span, its h4
Block(h3, span, h4) == [h3 |-> h3, span |-> span, h4 |-> h4, raises |-> FALSE]

\* elem.inner_text().strip() when the element was found, else None (<<>>)
TextOf(elem) == IF elem.present THEN Strip(elem.text) ELSE <<>>

\* a plausible wrong filter: the description is not required
_extract_single_coupon_unchecked(element, button_index) ==
    LET brand == TextOf(element.h3)
        code == TextOf(element.span)
        description == TextOf(element.h4)
    IN IF element.raises THEN <<>>
       ELSE IF brand # <<>> /\ code # <<>>
            THEN <<[brand |-> brand, code |-> code, description |-> description,
                    button_index |-> button_index]>>
            ELSE <<>>

\* _extract_single_coupon(element, button_index): <<>> stands for None
_extract_single_coupon(element, button_index) ==
    LET brand == TextOf(element.h3)
        code == TextOf(element.span)
        description == TextOf(element.h4)
    IN IF element.raises THEN <<>>
       ELSE IF brand # <<>> /\ code # <<>> /\ description # <<>>
            THEN <<[brand |-> brand, code |-> code, description |-> description,
                    button_index |-> button_index]>>
            ELSE <<>>

\* a plausible wrong numbering: the index counts the emitted coupons only
RECURSIVE ExtractBlocksRenumbered(_, _)
ExtractBlocksRenumbered(blocks, idx) ==
    IF blocks = <<>> THEN <<>>
    ELSE _extract_single_coupon(blocks[1], idx)
         \o ExtractBlocksRenumbered(
                Tail(blocks),
                IF _extract_single_coupon(blocks[1], idx) = <<>> THEN idx ELSE idx + 1)

RECURSIVE ExtractBlocks(_, _)
ExtractBlocks(blocks, idx) ==
    IF idx >= Len(blocks) THEN <<>>
    ELSE _extract_single_coupon(blocks[idx + 1], idx) \o ExtractBlocks(blocks, idx + 1)

\* _extract_coupons(): content.raises: wait_for_load_state or a query raises
_extract_coupons(content) ==
    IF content.raises THEN <<>>
    ELSE IF ~content.grid THEN <<>>
    ELSE ExtractBlocks(content.blocks, 0)

\* _extract_data()
_extract_data(content) == _extract_coupons(content)

FooBlock == Block(Elem(<<"Foo">>), Elem(<<BLANK, "SAVE10">>), Elem(<<"10%", BLANK, "off">>))
BarBlock == Block(Elem(<<"Bar">>), Elem(<<"BAR5">>), Elem(<<"Free", BLANK, "gift">>))
NoDescriptionBlock == Block(Elem(<<"Baz">>), Elem(<<"BAZ">>), Missing)

Grid(blocks) == [grid |-> TRUE, blocks |-> blocks, raises |-> FALSE]

\* what a category page can show after a navigation or reload
ContentPool ==
    {NoGrid, Grid(<<>>), Grid(<<FooBlock>>), Grid(<<NoDescriptionBlock, BarBlock>>),
     [grid |-> TRUE, blocks |-> <<FooBlock>>, raises |-> TRUE]}

\* ------------------------------------------- scrape and scrape_with_retry
DefaultMaxRetries == 3
RetryDelay == 5

\* `attempt in range(max_retries)` off by one
RangeHasInclusive(n, i) == 0 <= i /\ i <= n

\* a plausible wrong range: a negative count is taken by its magnitude
RangeHasMagnitude(n, i) == 0 <= i /\ i < (IF n < 0 THEN 0 - n ELSE n)

\* `attempt in range(max_retries)`
RangeHas(n, i) == 0 <= i /\ i < n

InitRetry ==
    /\ rs_pc = "loop"
    /\ max_retries \in (-1..MaxRetriesArg) \cup {DefaultMaxRetries}
    /\ attempt = 0
    /\ rs_result = <<>>
    /\ sc_result = <<>>
    /\ sc = FreshScrape
    /\ rs_log = <<>>
    /\ rs_waits = <<>>
    /\ rs_nav = <<>>
    /\ user_agent = "default"
    /\ TreeIdle
    /\ DiscIdle
    /\ LaterIdle

\* scrape() returns r to the retry loop
ScrapeReturns(r) ==
    /\ sc_result' = r
    /\ rs_log' = Append(rs_log, r)
    /\ rs_pc' = "returned"

\* lines 495-497 and scrape(), lines 398-410: the next attempt navigates,
\* reads the title and either extracts, or enters _handle_blocked_page
Scrape ==
    /\ rs_pc = "loop"
    /\ RangeHas(max_retries, attempt)
    /\ \E nav \in {"ok", "raise"}, title \in PageTitles, content \in ContentPool :
          IF nav = "raise"
          THEN /\ sc' = [FreshScrape EXCEPT !.gotos = 1, !.fault = "goto"]
               /\ ScrapeReturns(<<>>)
          ELSE IF IsBlocked(title)
          THEN /\ sc' = [FreshScrape EXCEPT !.gotos = 1, !.titles = 1, !.title = title,
                                            !.recovering = TRUE]
               /\ rs_pc' = "blocked"
               /\ UNCHANGED <<sc_result, rs_log>>
          ELSE /\ sc' = [FreshScrape EXCEPT !.gotos = 1, !.titles = 1, !.title = title,
                                            !.content = content]
               /\ ScrapeReturns(_extract_data(content))
    /\ rs_nav' = Append(rs_nav, [call |-> "goto", user_agent |-> user_agent])
    /\ UNCHANGED <<max_retries, attempt, rs_result, rs_waits, user_agent>>
    /\ UNCHANGED treeVars
    /\ UNCHANGED discVars
    /\ UNCHANGED laterVars

\* the call of _handle_blocked_page's try block that raises, if any
RecoveryFaults == {"none", "set_headers", "reload", "title"}

\* a plausible wrong swap: a second recovery puts the first header back
ToggledHeaders(current, fault) ==
    IF fault = "set_headers" THEN current
    ELSE IF current = "alternate" THEN "default" ELSE "alternate"

\* page.set_extra_http_headers({'User-Agent': ...Windows NT 10.0...})
set_extra_http_headers(current, fault) ==
    IF fault = "set_headers" THEN current ELSE "alternate"

\* a plausible wrong recovery: a page still blocked is recovered again
HandleBlockedPageAgain ==
    /\ rs_pc = "blocked"
    /\ \E fault \in RecoveryFaults, title \in PageTitles, content \in ContentPool :
          /\ user_agent' = set_extra_http_headers(user_agent, fault)
          /\ rs_nav' = IF fault = "set_headers" THEN rs_nav
                        ELSE Append(rs_nav, [call |-> "reload", user_agent |-> user_agent'])
          /\ sc' = [sc EXCEPT !.swaps = @ + 1,
                              !.reloads = IF fault = "set_headers" THEN @ ELSE @ + 1,
                              !.titles = IF fault \in {"none", "title"} THEN @ + 1 ELSE @,
                              !.fault = fault,
                              !.title = IF fault = "none" THEN title ELSE @,
                              !.content = IF fault = "none" THEN content ELSE @]
          /\ IF fault # "none" THEN ScrapeReturns(<<>>)
             ELSE IF ~IsBlocked(title) THEN ScrapeReturns(_extract_data(content))
             ELSE rs_pc' = "blocked" /\ UNCHANGED <<sc_result, rs_log>>
    /\ UNCHANGED <<max_retries, attempt, rs_result, rs_waits>>
    /\ UNCHANGED treeVars
    /\ UNCHANGED discVars
    /\ UNCHANGED laterVars

\* _handle_blocked_page(), lines 412-431: swap the header, reload, re-check
\* the title once; fault names the call that raises
HandleBlockedPage ==
    /\ rs_pc = "blocked"
    /\ \E fault \in RecoveryFaults, title \in PageTitles, content \in ContentPool :
          /\ user_agent' = set_extra_http_headers(user_agent, fault)
          /\ rs_nav' = IF fault = "set_headers" THEN rs_nav
                        ELSE Append(rs_nav, [call |-> "reload", user_agent |-> user_agent'])
          /\ sc' = [sc EXCEPT !.swaps = @ + 1,
                              !.reloads = IF fault = "set_headers" THEN @ ELSE @ + 1,
                              !.titles = IF fault \in {"none", "title"} THEN @ + 1 ELSE @,
                              !.fault = fault,
                              !.title = IF fault = "none" THEN title ELSE @,
                              !.content = IF fault = "none" THEN content ELSE @]
          /\ IF fault # "none" THEN ScrapeReturns(<<>>)
             ELSE IF ~IsBlocked(title) THEN ScrapeReturns(_extract_data(content))
             ELSE ScrapeReturns(<<>>)
    /\ UNCHANGED <<max_retries, attempt, rs_result, rs_waits>>
    /\ UNCHANGED treeVars
    /\ UNCHANGED discVars
    /\ UNCHANGED laterVars

\* a plausible wrong loop: a non-empty result does not end the loop
ReturnResultLate ==
    /\ rs_pc = "returned"
    /\ sc_result # <<>>
    /\ IF RangeHas(max_retries, attempt + 1)
       THEN rs_pc' = "loop" /\ attempt' = attempt + 1 /\ UNCHANGED rs_result
       ELSE rs_pc' = "done" /\ rs_result' = sc_result /\ UNCHANGED attempt
    /\ UNCHANGED <<max_retries, sc_result, sc, rs_log, rs_waits, user_agent, rs_nav>>
    /\ UNCHANGED treeVars
    /\ UNCHANGED discVars
    /\ UNCHANGED laterVars

\* lines 498-499: a non-empty result is returned at once
ReturnResult ==
    /\ rs_pc = "returned"
    /\ sc_result # <<>>
    /\ rs_result' = sc_result
    /\ rs_pc' = "done"
    /\ UNCHANGED <<max_retries, attempt, sc_result, sc, rs_log, rs_waits, user_agent, rs_nav>>
    /\ UNCHANGED treeVars
    /\ UNCHANGED discVars
    /\ UNCHANGED laterVars

\* a plausible wrong delay: the loop variable itself times the delay
BackoffFromZero ==
    /\ rs_pc = "returned"
    /\ sc_result = <<>>
    /\ attempt < max_retries - 1
    /\ rs_waits' = Append(rs_waits, attempt * RetryDelay)
    /\ attempt' = attempt + 1
    /\ rs_pc' = "loop"
    /\ UNCHANGED <<max_retries, rs_result, sc_result, sc, rs_log, user_agent, rs_nav>>
    /\ UNCHANGED treeVars
    /\ UNCHANGED discVars
    /\ UNCHANGED laterVars

\* lines 500-503: an empty result before the last attempt: sleep, then loop
Backoff ==
    /\ rs_pc = "returned"
    /\ sc_result = <<>>
    /\ attempt < max_retries - 1
    /\ rs_waits' = Append(rs_waits, (attempt + 1) * RetryDelay)
    /\ attempt' = attempt + 1
    /\ rs_pc' = "loop"
    /\ UNCHANGED <<max_retries, rs_result, sc_result, sc, rs_log, user_agent, rs_nav>>
    /\ UNCHANGED treeVars
    /\ UNCHANGED discVars
    /\ UNCHANGED laterVars

\* line 500 false: an empty result on the last attempt: loop without sleeping
LastAttemptEmpty ==
    /\ rs_pc = "returned"
    /\ sc_result = <<>>
    /\ ~(attempt < max_retries - 1)
    /\ attempt' = attempt + 1
    /\ rs_pc' = "loop"
    /\ UNCHANGED <<max_retries, rs_result, sc_result, sc, rs_log, rs_waits, user_agent, rs_nav>>
    /\ UNCHANGED treeVars
    /\ UNCHANGED discVars
    /\ UNCHANGED laterVars

\* lines 504-505: the range is exhausted
Exhausted ==
    /\ rs_pc = "loop"
    /\ ~RangeHas(max_retries, attempt)
    /\ rs_result' = <<>>
    /\ rs_pc' = "done"
    /\ UNCHANGED <<max_retries, attempt, sc_result, sc, rs_log, rs_waits, user_agent, rs_nav>>
    /\ UNCHANGED treeVars
    /\ UNCHANGED discVars
    /\ UNCHANGED laterVars

NextRetry ==
    \/ Scrape
    \/ HandleBlockedPage
    \/ ReturnResult
    \/ Backoff
    \/ LastAttemptEmpty
    \/ Exhausted

SpecRetry == InitRetry /\ [][NextRetry]_vars

\* the interpreter runs the loop on: no step of it waits for anything but
\* the page and the sleeps, which return or raise
SpecRetryFair == SpecRetry /\ WF_vars(NextRetry)

\* ------------------------------------------------------- retry claims
AllEmpty(log) == \A i \in 1..Len(log) : log[i] = <<>>

\* scrape() calls made so far: those that returned and the one in recovery
ScrapeCalls == Len(rs_log) + (IF rs_pc = "blocked" THEN 1 ELSE 0)

\* C8: with every scrape() empty, scrape_with_retry(url, max_attempts), for a
\* count max_attempts >= 0, makes exactly max_attempts scrape calls and then
\* returns the empty list; it never makes more than max_attempts calls.
C8_EmptyRunsMakeMaxAttemptsCalls ==
    max_retries >= 0 =>
        /\ ScrapeCalls <= max_retries
        /\ (rs_pc = "done" /\ AllEmpty(rs_log)) =>
              (ScrapeCalls = max_retries /\ rs_result = <<>>)

\* the default three attempts, all empty, and the call has returned
C8_Witness ==
    /\ rs_pc = "done"
    /\ max_retries = DefaultMaxRetries
    /\ ScrapeCalls = max_retries
    /\ AllEmpty(rs_log)
    /\ rs_result = <<>>

\* C9: the first non-empty attempt is the last one: its list is what
\* scrape_with_retry returns, and no scrape call and no backoff wait follows it.
C9_ReturnsFirstNonEmpty ==
    /\ \A i \in 1..(Len(rs_log) - 1) : rs_log[i] = <<>>
    /\ (rs_log # <<>> /\ rs_log[Len(rs_log)] # <<>>) =>
          /\ rs_pc \in {"returned", "done"}
          /\ Len(rs_waits) = Len(rs_log) - 1
          /\ rs_pc = "done" => rs_result = rs_log[Len(rs_log)]
    /\ (rs_pc = "done" /\ rs_result # <<>>) =>
          (rs_log # <<>> /\ rs_result = rs_log[Len(rs_log)])

\* an empty attempt, one backoff, then a non-empty attempt that was returned
C9_Witness ==
    /\ rs_pc = "done"
    /\ Len(rs_log) = 2
    /\ rs_log[1] = <<>>
    /\ rs_log[2] # <<>>
    /\ rs_result = rs_log[2]
    /\ rs_waits = <<RetryDelay>>

ScrapeEnded == rs_pc \in {"returned", "done"} /\ rs_log # <<>>

\* C10: one scrape() swaps the header and reloads at most once and reads the
\* title at most twice; after a recovery it returns the extraction of the
\* reloaded page when the second title is not blocked, and the empty list
\* when it is still blocked or the swap, the reload or the re-check raised.
C10_RecoveryAtMostOnce ==
    /\ sc.gotos <= 1 /\ sc.swaps <= 1 /\ sc.reloads <= 1 /\ sc.titles <= 2
    /\ ~sc.recovering => (sc.swaps = 0 /\ sc.reloads = 0 /\ sc.titles <= 1)
    /\ (ScrapeEnded /\ sc.recovering) =>
          /\ sc.swaps = 1
          /\ sc.fault = "none" =>
                /\ sc.reloads = 1 /\ sc.titles = 2
                /\ ~IsBlocked(sc.title) => sc_result = _extract_data(sc.content)
                /\ IsBlocked(sc.title) => sc_result = <<>>
          /\ sc.fault # "none" => sc_result = <<>>
          /\ sc.fault \in {"set_headers", "reload"} => sc.titles = 1
          /\ sc.fault = "set_headers" => sc.reloads = 0

\* a blocked page that one reload recovered, and whose coupons were returned
C10_Witness ==
    /\ ScrapeEnded
    /\ sc.recovering
    /\ sc.reloads = 1
    /\ sc.titles = 2
    /\ ~IsBlocked(sc.title)
    /\ sc_result # <<>>

\* C21: the wait after the k-th empty attempt is k x 5 seconds; every attempt
\* but the first starts after its wait, so the waits number one less than
\* the attempts made, or as many once the next attempt is due; no wait
\* follows the last attempt.
C21_BackoffGrowsLinearly ==
    /\ \A k \in 1..Len(rs_waits) : rs_waits[k] = k * 5
    /\ ScrapeCalls >= 1 =>
          /\ Len(rs_waits) >= ScrapeCalls - 1
          /\ Len(rs_waits) <= ScrapeCalls
          /\ Len(rs_waits) <= max_retries - 1
    /\ ScrapeCalls = 0 => rs_waits = <<>>
    /\ (rs_pc \in {"blocked", "returned"}) => Len(rs_waits) = ScrapeCalls - 1
    /\ (rs_pc = "loop" /\ RangeHas(max_retries, attempt)) => Len(rs_waits) = ScrapeCalls
    /\ (rs_pc = "done" /\ ScrapeCalls >= 1) => Len(rs_waits) = ScrapeCalls - 1

\* three empty attempts with waits of 5 and 10 seconds, none after the third
C21_Witness ==
    /\ rs_pc = "done"
    /\ max_retries = DefaultMaxRetries
    /\ Len(rs_log) = 3
    /\ AllEmpty(rs_log)
    /\ rs_waits = <<5, 10>>

Alternate(i) == rs_nav[i].user_agent = "alternate"

\* C28: once a recovery has swapped the User-Agent, every later goto and
\* reload of the session is sent with the alternate value, every reload of
\* a recovery is, and a later recovery leaves the alternate value in place.
C28_HeaderSwapPersists ==
    /\ \A i, j \in 1..Len(rs_nav) : (i <= j /\ Alternate(i)) => Alternate(j)
    /\ \A i \in 1..Len(rs_nav) : rs_nav[i].call = "reload" => Alternate(i)
    /\ (\E i \in 1..Len(rs_nav) : Alternate(i)) => user_agent = "alternate"

\* a recovery, then a later attempt that navigated and recovered again
C28_Witness ==
    /\ Len(rs_nav) = 4
    /\ rs_nav[1] = [call |-> "goto", user_agent |-> "default"]
    /\ rs_nav[2] = [call |-> "reload", user_agent |-> "alternate"]
    /\ rs_nav[3] = [call |-> "goto", user_agent |-> "alternate"]
    /\ rs_nav[4] = [call |-> "reload", user_agent |-> "alternate"]

Navigations == {i \in 1..Len(rs_nav) : rs_nav[i].call = "goto"}
Reloads == {i \in 1..Len(rs_nav) : rs_nav[i].call = "reload"}
AtMost == IF max_retries > 0 THEN max_retries ELSE 0

\* C29: scrape_with_retry(url, n) returns for every integer n and every
\* behaviour of the page, after at most max(n, 0) navigations and at most
\* max(n, 0) recovery reloads; for n <= 0 it navigates not at all and
\* returns the empty list.
C29_RetryTerminates ==
    /\ <>(rs_pc = "done")
    /\ [](Cardinality(Navigations) <= AtMost /\ Cardinality(Reloads) <= AtMost)
    /\ []((rs_pc = "done" /\ max_retries <= 0) => (rs_nav = <<>> /\ rs_result = <<>>))

\* three attempts, each blocked and reloaded, the call returned
C29_Witness ==
    /\ rs_pc = "done"
    /\ max_retries = DefaultMaxRetries
    /\ Cardinality(Navigations) = 3
    /\ Cardinality(Reloads) = 3

\* ------------------------------------------------ coupon extractor runs
BlankCodeBlock == Block(Elem(<<"Qux">>), Elem(<<BLANK, BLANK>>), Elem(<<"5%", BLANK, "off">>))
EmptyBrandBlock == Block(Elem(<<>>), Elem(<<"NOBRAND">>), Elem(<<"Free", BLANK, "gift">>))
RaisingBlock == [h3 |-> Elem(<<"Foo">>), span |-> Elem(<<"SAVE10">>),
                 h4 |-> Elem(<<"10%", BLANK, "off">>), raises |-> TRUE]

BlockPool ==
    {FooBlock, BarBlock, NoDescriptionBlock, BlankCodeBlock, EmptyBrandBlock, RaisingBlock}

InitExtract ==
    /\ ex_content \in {Grid(b) : b \in SeqsUpTo(BlockPool, MaxBlocks)}
                      \cup {NoGrid, [grid |-> TRUE, blocks |-> <<FooBlock>>, raises |-> TRUE]}
    /\ ex_pc = "ready"
    /\ ex_result = <<>>
    /\ TreeIdle
    /\ DiscIdle
    /\ RetryIdle
    /\ RebuildIdle
    /\ RunIdle
    /\ ValidateIdle

\* _extract_coupons() on the loaded page
Extract ==
    /\ ex_pc = "ready"
    /\ ex_result' = _extract_coupons(ex_content)
    /\ ex_pc' = "done"
    /\ UNCHANGED ex_content
    /\ UNCHANGED <<treeVars, discVars, retryVars, rebuildVars, runVars, validateVars>>

NextExtract == Extract

SpecExtract == InitExtract /\ [][NextExtract]_vars

\* ---------------------------------------------------- extractor claims
\* a block whose three elements are there with a text that is not blank
Complete(b) ==
    /\ ~b.raises
    /\ b.h3.present /\ b.span.present /\ b.h4.present
    /\ \E i \in 1..Len(b.h3.text) : b.h3.text[i] # BLANK
    /\ \E i \in 1..Len(b.span.text) : b.span.text[i] # BLANK
    /\ \E i \in 1..Len(b.h4.text) : b.h4.text[i] # BLANK

Extracting == ex_pc = "done" /\ ex_content.grid /\ ~ex_content.raises

\* C11: the coupon of block bi carries button_index i, its position among all
\* blocks; the output is in strictly increasing button_index order, and a
\* skipped block shifts the index of no other block.
C11_ButtonIndexIsBlockPosition ==
    Extracting =>
        LET blocks == ex_content.blocks IN
        /\ \A k \in 1..Len(ex_result) :
              /\ ex_result[k].button_index \in 0..(Len(blocks) - 1)
              /\ ex_result[k].brand = Strip(blocks[ex_result[k].button_index + 1].h3.text)
              /\ ex_result[k].code = Strip(blocks[ex_result[k].button_index + 1].span.text)
        /\ \A k \in 1..(Len(ex_result) - 1) :
              ex_result[k].button_index < ex_result[k + 1].button_index
        /\ {ex_result[k].button_index : k \in 1..Len(ex_result)}
             = {i \in 0..(Len(blocks) - 1) : Complete(blocks[i + 1])}

\* a block without description first: the coupons after it keep indices 1 and 2
C11_Witness ==
    /\ Extracting
    /\ Len(ex_content.blocks) = 3
    /\ ex_content.blocks[1] = NoDescriptionBlock
    /\ Len(ex_result) = 2
    /\ ex_result[1].button_index = 1
    /\ ex_result[2].button_index = 2

NonBlank(text) == Strip(text) # <<>>

\* C12: every emitted coupon has a brand, a code and a description that are
\* not empty after trimming; a block with a missing, empty or blank element,
\* or whose reading raises, gives no coupon, and the blocks after it are read.
C12_OnlyCompleteCouponsEmitted ==
    Extracting =>
        LET blocks == ex_content.blocks IN
        /\ \A k \in 1..Len(ex_result) :
              /\ NonBlank(ex_result[k].brand)
              /\ NonBlank(ex_result[k].code)
              /\ NonBlank(ex_result[k].description)
        /\ \A i \in 1..Len(blocks) :
              (\E k \in 1..Len(ex_result) : ex_result[k].button_index = i - 1)
                 <=> Complete(blocks[i])

\* a raising block and a blank-code block, and the complete block after them
C12_Witness ==
    /\ Extracting
    /\ ex_content.blocks = <<RaisingBlock, BlankCodeBlock, BarBlock>>
    /\ Len(ex_result) = 1
    /\ ex_result[1].brand = <<"Bar">>

\* ------------------------------------------------ repeated tree builds
RebuildPool ==
    {MainRecord(BeautyMakeup, <<"Makeup">>),
     MainRecord(BeautySkinCare, <<"Skin", BLANK, "Care">>),
     Level3Record(BeautyMakeupLipstick, <<"Lipstick">>)}

RebuildCoupons == {<<>>, <<Coupon("Foo", "SAVE10", 0, BeautyMakeup)>>}

InitRebuild ==
    /\ rb_pc = "input"
    /\ rb_categories \in SeqsUpTo(RebuildPool, MaxRebuildCats)
    /\ rb_coupons \in RebuildCoupons
    /\ rb_tree = EmptyMap
    /\ rb_first = NoCall
    /\ tree_file = NoFile
    /\ TreeIdle
    /\ DiscIdle
    /\ RetryIdle
    /\ ExtractIdle
    /\ RunIdle
    /\ ValidateIdle

\* a plausible wrong builder: the tree of the previous call is patched
OrganizeIncremental ==
    /\ rb_pc = "input"
    /\ rb_tree' = AddCategories(rb_tree, rb_categories, 1)
    /\ rb_first' = IF rb_first.called THEN rb_first
                   ELSE [called |-> TRUE, categories |-> rb_categories,
                         coupons |-> rb_coupons, tree |-> rb_tree']
    /\ rb_pc' = "built"
    /\ UNCHANGED <<rb_categories, rb_coupons, tree_file>>
    /\ UNCHANGED <<treeVars, discVars, retryVars, extractVars, runVars, validateVars>>

\* a call of organize_data_tree: `tree = {}`, the loop, `return tree`
Organize ==
    /\ rb_pc = "input"
    /\ rb_tree' = organize_data_tree(rb_categories, rb_coupons)
    /\ rb_first' = IF rb_first.called THEN rb_first
                   ELSE [called |-> TRUE, categories |-> rb_categories,
                         coupons |-> rb_coupons, tree |-> rb_tree']
    /\ rb_pc' = "built"
    /\ UNCHANGED <<rb_categories, rb_coupons, tree_file>>
    /\ UNCHANGED <<treeVars, discVars, retryVars, extractVars, runVars, validateVars>>

\* save_tree_structure(tree)
SaveTree ==
    /\ rb_pc = "built"
    /\ tree_file' = [written |-> TRUE, content |-> rb_tree]
    /\ rb_pc' = "saved"
    /\ UNCHANGED <<rb_categories, rb_coupons, rb_tree, rb_first>>
    /\ UNCHANGED <<treeVars, discVars, retryVars, extractVars, runVars, validateVars>>

\* a later run hands the lists it collected to the builder
LaterRun ==
    /\ rb_pc \in {"built", "saved"}
    /\ rb_categories' \in SeqsUpTo(RebuildPool, MaxRebuildCats)
    /\ rb_coupons' \in RebuildCoupons
    /\ rb_pc' = "input"
    /\ UNCHANGED <<rb_tree, rb_first, tree_file>>
    /\ UNCHANGED <<treeVars, discVars, retryVars, extractVars, runVars, validateVars>>

NextRebuild == Organize \/ SaveTree \/ LaterRun

SpecRebuild == InitRebuild /\ [][NextRebuild]_vars

AcquiringOps ==
    {"run_scraper", "discover_categories", "discover_tree_main", "comprehensive_coupons_main"}
\* methods of a scraper the caller made
MethodOps == {"scrape_all_categories", "scrape_all_categories_with_tree"}
LoopOps == MethodOps \cup {"comprehensive_coupons_main"}
RunOps == AcquiringOps \cup MethodOps

\* a record as json.load gives it when a key is not in the file
Without(rec, key) == [k \in (DOMAIN rec) \ {key} |-> rec[k]]

\* what discover_categories returns
DiscoveredPool ==
    {MainRecord(BeautyMakeup, <<"Makeup">>),
     Level3Record(BeautyMakeupLipstick, <<"Lipstick">>)}

\* what discovered_categories.json can hold
LoadedPool ==
    DiscoveredPool
    \cup {Without(MainRecord(BeautySkinCare, <<"Skin", BLANK, "Care">>), k) :
             k \in {"title", "url", "category_path"}}

MaxCategoriesPool == {NoCap} \cup {[given |-> TRUE, value |-> v] : v \in {-1, 0, 1}}

\* `if max_categories: categories = categories[:max_categories]`
Cap(cats, m) ==
    IF ~m.given \/ m.value = 0 THEN cats
    ELSE IF m.value > 0
         THEN SubSeq(cats, 1, IF m.value < Len(cats) THEN m.value ELSE Len(cats))
         ELSE SubSeq(cats, 1, IF Len(cats) + m.value > 0 THEN Len(cats) + m.value ELSE 0)

\* what one self.scrape(url) can return
ScrapeResults == {_extract_data(c) : c \in ContentPool}

\* a plausible wrong annotation: the coupons are appended as scraped
Unannotated(category_coupons, category) == category_coupons

\* the loop's annotation of the coupons of one category (the keys common to
\* the three loops)
Annotated(category_coupons, category) ==
    [k \in 1..Len(category_coupons) |->
        [brand |-> category_coupons[k].brand,
         code |-> category_coupons[k].code,
         description |-> category_coupons[k].description,
         button_index |-> category_coupons[k].button_index,
         category |-> category.title,
         category_url |-> category.url,
         category_path |-> category.category_path]]

\* what __init__ leaves: the four resources of a session
AllOpen == [page |-> "open", context |-> "open", browser |-> "open", playwright |-> "open"]

\* the call of close() that raises, if any
CloseFaults == {"none", "page", "context", "browser", "playwright"}

\* the position of each release in the try block of close()
CloseOrder ==
    [page |-> 1, context |-> 2, browser |-> 3, playwright |-> 4, none |-> 5]

\* close(): page.close(), context.close(), browser.close(), playwright.stop()
\* in one try; the call that raises ends the block, the except prints
close(res, fault) ==
    [r \in DOMAIN res |->
        IF CloseOrder[r] < CloseOrder[fault] THEN "released" ELSE res[r]]

\* close() on the latest session
CloseLatest(rs, fault) == [rs EXCEPT ![Len(rs)] = close(@, fault)]

\* a plausible wrong release: close() is the last statement of the try body
CloseOnReturn(ss, how) ==
    IF how = "returned" THEN [ss EXCEPT ![Len(ss)] = "closed"] ELSE ss

\* `finally: scraper.close()`: the latest session, however the body ended
CloseOnExit(ss, how) == [ss EXCEPT ![Len(ss)] = "closed"]

loopVars == <<run_idx, run_visited, run_scrapes, all_coupons, successful_categories>>
inputVars == <<run_op, run_loaded, max_categories>>
otherVars == <<treeVars, discVars, retryVars, extractVars, rebuildVars, validateVars>>

InitRun ==
    /\ run_op \in RunOps
    /\ run_loaded \in (IF run_op = "comprehensive_coupons_main"
                          THEN SeqsUpTo(LoadedPool, MaxRunCats)
                       ELSE IF run_op = "run_scraper" THEN {<<>>}
                       ELSE SeqsUpTo(DiscoveredPool, MaxRunCats))
    /\ max_categories \in (IF run_op \in LoopOps THEN MaxCategoriesPool ELSE {NoCap})
    /\ sessions = IF run_op \in MethodOps THEN <<"open">> ELSE <<>>
    /\ resources = IF run_op \in MethodOps THEN <<AllOpen>> ELSE <<>>
    /\ run_pc = "start"
    /\ run_exit = "none"
    /\ run_categories = <<>>
    /\ run_idx = 0 /\ run_visited = <<>> /\ run_scrapes = <<>>
    /\ all_coupons = <<>> /\ successful_categories = 0
    /\ tree_writes = <<>> /\ flat_writes = <<>>
    /\ TreeIdle /\ DiscIdle /\ RetryIdle /\ ExtractIdle /\ RebuildIdle /\ ValidateIdle

\* where `scraper = SimplyCodesScraper(headless=...)` stands in each operation
AcquirePoint ==
    \/ run_pc = "start" /\ run_op \in {"run_scraper", "discover_categories", "discover_tree_main"}
    \/ run_pc = "tree_acquire"
    \/ run_pc = "acquire"

AfterAcquire ==
    IF run_pc = "tree_acquire" THEN "tree_body"
    ELSE IF run_pc = "acquire" THEN "loop"
    ELSE IF run_op = "discover_tree_main" THEN "discovering"
    ELSE "body"

\* SimplyCodesScraper(headless=...): the constructor returns or raises
Acquire ==
    /\ AcquirePoint
    /\ \E ok \in BOOLEAN :
          IF ok
          THEN /\ sessions' = Append(sessions, "open")
               /\ resources' = Append(resources, AllOpen)
               /\ run_pc' = AfterAcquire
               /\ UNCHANGED run_exit
          ELSE /\ run_pc' = "exit"
               /\ run_exit' = "acquire_raised"
               /\ UNCHANGED <<sessions, resources>>
    /\ UNCHANGED <<inputVars, run_categories, loopVars, tree_writes, flat_writes>>
    /\ UNCHANGED otherVars

\* run_scraper / discover_categories of scrapers/__init__.py: try body, finally
WrapperBody ==
    /\ run_pc = "body"
    /\ \E how \in {"returned", "body_raised"} :
          /\ sessions' = CloseOnExit(sessions, how)
          /\ \E fault \in CloseFaults : resources' = CloseLatest(resources, fault)
          /\ run_exit' = how
    /\ run_pc' = "exit"
    /\ UNCHANGED <<inputVars, run_categories, loopVars, tree_writes, flat_writes>>
    /\ UNCHANGED otherVars

\* discover_tree_main, lines 38-44: the wrapper's body and finally, the early
\* return, save_categories_to_json
TreeDiscovered ==
    /\ run_pc = "discovering"
    /\ \E how \in {"returned", "body_raised"}, saved \in BOOLEAN :
          /\ sessions' = CloseOnExit(sessions, how)
          /\ \E fault \in CloseFaults : resources' = CloseLatest(resources, fault)
          /\ IF how = "body_raised"
             THEN run_pc' = "exit" /\ run_exit' = "body_raised"
             ELSE IF run_loaded = <<>>
             THEN run_pc' = "exit" /\ run_exit' = "returned_early"
             ELSE IF saved
             THEN run_pc' = "tree_acquire" /\ UNCHANGED run_exit
             ELSE run_pc' = "exit" /\ run_exit' = "save_raised"
    /\ UNCHANGED <<inputVars, run_categories, loopVars, tree_writes, flat_writes>>
    /\ UNCHANGED otherVars

\* discover_tree_main, lines 51-70: organize, save, except, finally
TreeBody ==
    /\ run_pc = "tree_body"
    /\ \E how \in {"returned", "body_raised"} :
          /\ tree_writes' = IF how = "returned"
                            THEN Append(tree_writes, organize_data_tree(run_loaded, <<>>))
                            ELSE tree_writes
          /\ sessions' = CloseOnExit(sessions, how)
          /\ \E fault \in CloseFaults : resources' = CloseLatest(resources, fault)
          /\ run_exit' = IF how = "returned" THEN "returned" ELSE "body_caught"
    /\ run_pc' = "exit"
    /\ UNCHANGED <<inputVars, run_categories, loopVars, flat_writes>>
    /\ UNCHANGED otherVars

\* comprehensive_coupons_main, lines 75-114: the files, the early returns, the cap
Load ==
    /\ run_pc = "start"
    /\ run_op = "comprehensive_coupons_main"
    /\ \E pre \in {"ok", "no_categories_file", "no_tree_file", "load_raised"} :
          IF pre = "load_raised"
          THEN run_pc' = "exit" /\ run_exit' = "load_raised" /\ UNCHANGED run_categories
          ELSE IF pre # "ok" \/ run_loaded = <<>>
          THEN run_pc' = "exit" /\ run_exit' = "returned_early" /\ UNCHANGED run_categories
          ELSE /\ run_categories' = Cap(run_loaded, max_categories)
               /\ run_pc' = "acquire"
               /\ UNCHANGED run_exit
    /\ UNCHANGED <<inputVars, sessions, resources, loopVars, tree_writes, flat_writes>>
    /\ UNCHANGED otherVars

\* scrape_all_categories(_with_tree), lines 340-349 / 592-601
MethodStart ==
    /\ run_pc = "start"
    /\ run_op \in MethodOps
    /\ IF run_loaded = <<>>
       THEN run_pc' = "exit" /\ run_exit' = "returned_early" /\ UNCHANGED run_categories
       ELSE /\ run_categories' = Cap(run_loaded, max_categories)
            /\ run_pc' = "loop"
            /\ UNCHANGED run_exit
    /\ UNCHANGED <<inputVars, sessions, resources, loopVars, tree_writes, flat_writes>>
    /\ UNCHANGED otherVars

\* the reads of the loop header, outside the try: category['title'], and in
\* the scraper's methods category['url']
RaisesOutsideTry(category) ==
    \/ "title" \notin DOMAIN category
    \/ run_op \in MethodOps /\ "url" \notin DOMAIN category

\* one iteration of the category loop
ScrapeCategory ==
    /\ run_pc = "loop"
    /\ run_idx < Len(run_categories)
    /\ LET category == run_categories[run_idx + 1] IN
       /\ run_visited' = Append(run_visited, run_idx + 1)
       /\ IF RaisesOutsideTry(category)
          THEN /\ run_pc' = "exit"
               /\ run_exit' = "category_raised"
               /\ sessions' = IF run_op \in AcquiringOps
                              THEN CloseOnExit(sessions, "category_raised")
                              ELSE sessions
               /\ IF run_op \in AcquiringOps
                  THEN \E fault \in CloseFaults : resources' = CloseLatest(resources, fault)
                  ELSE UNCHANGED resources
               /\ UNCHANGED <<run_idx, run_scrapes, all_coupons, successful_categories>>
          ELSE /\ run_idx' = run_idx + 1
               /\ UNCHANGED <<run_pc, run_exit, sessions, resources>>
               /\ IF "url" \notin DOMAIN category
                  THEN UNCHANGED <<run_scrapes, all_coupons, successful_categories>>
                  ELSE \E category_coupons \in ScrapeResults :
                          /\ run_scrapes' = Append(run_scrapes,
                                                   [cat |-> run_idx + 1,
                                                    result |-> category_coupons])
                          /\ IF category_coupons # <<>> /\ "category_path" \in DOMAIN category
                             THEN /\ all_coupons' =
                                       all_coupons \o Annotated(category_coupons, category)
                                  /\ successful_categories' = successful_categories + 1
                             ELSE UNCHANGED <<all_coupons, successful_categories>>
    /\ UNCHANGED <<inputVars, run_categories, tree_writes, flat_writes>>
    /\ UNCHANGED otherVars

\* scrape_all_categories after the loop: return all_coupons
ReturnCoupons ==
    /\ run_pc = "loop"
    /\ run_idx = Len(run_categories)
    /\ run_op = "scrape_all_categories"
    /\ run_pc' = "exit"
    /\ run_exit' = "returned"
    /\ UNCHANGED <<inputVars, sessions, resources, run_categories, loopVars, tree_writes, flat_writes>>
    /\ UNCHANGED otherVars

\* a plausible wrong order: the tree is saved before it is organized
SaveThenMerge ==
    /\ run_pc = "loop"
    /\ run_idx = Len(run_categories)
    /\ run_op = "scrape_all_categories_with_tree"
    /\ \E fault \in {"none", "save_tree", "save_flat"} :
          /\ tree_writes' = IF fault = "save_tree" THEN tree_writes
                            ELSE Append(tree_writes, EmptyMap)
          /\ flat_writes' = IF fault = "none" THEN Append(flat_writes, all_coupons)
                            ELSE flat_writes
          /\ run_exit' = IF fault = "none" THEN "returned" ELSE "save_raised"
    /\ run_pc' = "exit"
    /\ UNCHANGED <<inputVars, sessions, resources, run_categories, loopVars>>
    /\ UNCHANGED otherVars

\* scrape_all_categories_with_tree after the loop, lines 646-660:
\* organize_data_tree, save_tree_structure, save_comprehensive_coupons
MergeAndSave ==
    /\ run_pc = "loop"
    /\ run_idx = Len(run_categories)
    /\ run_op = "scrape_all_categories_with_tree"
    /\ \E fault \in {"none", "save_tree", "save_flat"} :
          /\ tree_writes' = IF fault = "save_tree" THEN tree_writes
                            ELSE Append(tree_writes,
                                        organize_data_tree(run_categories, all_coupons))
          /\ flat_writes' = IF fault = "none" THEN Append(flat_writes, all_coupons)
                            ELSE flat_writes
          /\ run_exit' = IF fault = "none" THEN "returned" ELSE "save_raised"
    /\ run_pc' = "exit"
    /\ UNCHANGED <<inputVars, sessions, resources, run_categories, loopVars>>
    /\ UNCHANGED otherVars

\* comprehensive_coupons_main after the loop, lines 193-203: save, finally
SaveAndClose ==
    /\ run_pc = "loop"
    /\ run_idx = Len(run_categories)
    /\ run_op = "comprehensive_coupons_main"
    /\ \E how \in {"returned", "save_raised"} :
          /\ flat_writes' = IF how = "returned" THEN Append(flat_writes, all_coupons)
                            ELSE flat_writes
          /\ sessions' = CloseOnExit(sessions, how)
          /\ \E fault \in CloseFaults : resources' = CloseLatest(resources, fault)
          /\ run_exit' = how
    /\ run_pc' = "exit"
    /\ UNCHANGED <<inputVars, run_categories, loopVars, tree_writes>>
    /\ UNCHANGED otherVars

NextRun ==
    \/ Acquire
    \/ WrapperBody
    \/ TreeDiscovered
    \/ TreeBody
    \/ Load
    \/ MethodStart
    \/ ScrapeCategory
    \/ ReturnCoupons
    \/ MergeAndSave
    \/ SaveAndClose

SpecRun == InitRun /\ [][NextRun]_vars

\* ------------------------------------------------------ run claims
\* C16: when run_scraper, discover_categories, discover_tree_main or
\* comprehensive_coupons_main has ended, by a return, an early return or an
\* exception, close() was called on every session it acquired.
C16_SessionClosedOnEveryExit ==
    (run_op \in AcquiringOps /\ run_pc = "exit") =>
        \A i \in 1..Len(sessions) : sessions[i] = "closed"

\* a run that raised inside the loop, its session closed
C16_Witness ==
    /\ run_op = "comprehensive_coupons_main"
    /\ run_pc = "exit"
    /\ run_exit = "category_raised"
    /\ sessions = <<"closed">>

\* the run got into its category loop and has ended
LoopRunEnded ==
    /\ run_op \in LoopOps
    /\ run_pc = "exit"
    /\ run_exit \in {"returned", "save_raised", "category_raised"}

\* C17: a category loop goes through every category of the capped list once,
\* in list order, on one session; no category, malformed or not, ends the
\* run or keeps the categories after it from being attempted.
C17_EveryCategoryAttempted ==
    LoopRunEnded =>
        /\ run_exit # "category_raised"
        /\ run_visited = [i \in 1..Len(run_categories) |-> i]
        /\ Len(sessions) = 1

\* the scrape() calls made for the category at position i
CallsFor(i) == {k \in 1..Len(run_scrapes) : run_scrapes[k].cat = i}

\* C18: in a comprehensive run a category whose first extraction is empty is
\* scraped again, up to the retry coordinator's default of 3 attempts, unless
\* an attempt returns coupons.
C18_ScrapedThroughRetry ==
    (run_op \in {"comprehensive_coupons_main", "scrape_all_categories_with_tree"}
        /\ run_pc = "exit" /\ run_exit = "returned") =>
        \A i \in 1..Len(run_categories) :
            (\E k \in CallsFor(i) :
                /\ \A m \in CallsFor(i) : k <= m
                /\ run_scrapes[k].result = <<>>)
            => \/ Cardinality(CallsFor(i)) = DefaultMaxRetries
               \/ \E k \in CallsFor(i) : run_scrapes[k].result # <<>>

\* C19: scrape_all_categories_with_tree hands a tree to save_tree_structure
\* at most once, after the loop has been through every category, and the
\* tree is the one organize_data_tree returns for the categories and the
\* collected coupons; a run that ends before the merge writes no tree.
C19_TreeWrittenAfterMerge ==
    run_op = "scrape_all_categories_with_tree" =>
        /\ run_pc # "exit" => tree_writes = <<>>
        /\ run_exit = "returned_early" => tree_writes = <<>>
        /\ tree_writes # <<>> =>
              /\ run_idx = Len(run_categories)
              /\ run_visited = [i \in 1..Len(run_categories) |-> i]
              /\ tree_writes = <<organize_data_tree(run_categories, all_coupons)>>

\* two categories scraped, one of them without coupons, then a tree with
\* nodes written
C19_Witness ==
    /\ run_op = "scrape_all_categories_with_tree"
    /\ run_pc = "exit"
    /\ Len(run_scrapes) = 2
    /\ run_scrapes[1].result = <<>>
    /\ all_coupons # <<>>
    /\ Len(tree_writes) = 1
    /\ tree_writes[1] # EmptyMap

\* the sessions that still hold a resource
OpenSessions ==
    {i \in 1..Len(resources) : \E r \in DOMAIN resources[i] : resources[i][r] = "open"}

\* C22: within one run at most one session holds open resources at any
\* time: a second session is acquired only after the previous one was closed.
C22_OneSessionAtATime ==
    run_op \in AcquiringOps => Cardinality(OpenSessions) <= 1

\* C26: once close() has returned on a session, its page, context, browser
\* and playwright driver are all released, also when a release raised.
C26_CloseReleasesEverything ==
    \A i \in 1..Len(sessions) :
        sessions[i] = "closed" =>
            \A r \in DOMAIN resources[i] : resources[i][r] = "released"

\* C23: with a cap n supplied, the loop's list is the first min(n, len)
\* categories of the discovered or loaded list, in order, none when n <= 0:
\* at most n categories are scraped.
C23_CapTakesFirstN ==
    (run_op \in LoopOps /\ max_categories.given /\ run_pc \in {"acquire", "loop"}) =>
        LET n == max_categories.value
            count == IF n <= 0 THEN 0
                     ELSE IF n < Len(run_loaded) THEN n ELSE Len(run_loaded)
        IN /\ run_categories = SubSeq(run_loaded, 1, count)
           /\ Len(run_scrapes) <= count

\* every coupon of the scrapes, in order, with the position of its category
RECURSIVE Origins(_, _)
Origins(scrapes, i) ==
    IF i > Len(scrapes) THEN <<>>
    ELSE [j \in 1..Len(scrapes[i].result) |->
             [coupon |-> scrapes[i].result[j], cat |-> scrapes[i].cat]]
         \o Origins(scrapes, i + 1)

\* the flat list holds the coupons of the scrapes, each with its category
FlatListOf(scrapes) ==
    LET origins == Origins(scrapes, 1) IN
    /\ Len(all_coupons) = Len(origins)
    /\ \A k \in 1..Len(origins) :
          LET category == run_categories[origins[k].cat] IN
          /\ all_coupons[k].brand = origins[k].coupon.brand
          /\ all_coupons[k].code = origins[k].coupon.code
          /\ all_coupons[k].button_index = origins[k].coupon.button_index
          /\ {"category", "category_url", "category_path"} \subseteq DOMAIN all_coupons[k]
          /\ {"title", "url", "category_path"} \subseteq DOMAIN category
          /\ all_coupons[k].category = category.title
          /\ all_coupons[k].category_url = category.url
          /\ all_coupons[k].category_path = category.category_path
    /\ successful_categories
         = Cardinality({k \in 1..Len(scrapes) : scrapes[k].result # <<>>})
    /\ successful_categories <= Len(run_categories)

LoopEnded ==
    run_op \in LoopOps /\ run_pc = "exit" /\ run_exit \in {"returned", "save_raised"}

\* C30 as stated: after the loop the flat list is the concatenation, in
\* category order, of the non-empty results, each coupon carrying category,
\* category_url and category_path of its category, and the count of
\* successful categories is the number of non-empty results.
C30_FlatListIsConcatenation == LoopEnded => FlatListOf(run_scrapes)

HasPath(scrape) == "category_path" \in DOMAIN run_categories[scrape.cat]

\* C30 amended: the same for the categories whose record has a
\* category_path; the result of a category without one is discarded by the
\* loop's handler and the category is not counted.
C30_FlatListOfAnnotatedResults ==
    LoopEnded => FlatListOf(SelectSeq(run_scrapes, HasPath))

\* two categories with coupons, the first without category_path: the flat
\* list holds the coupons of the second only
C30_Witness ==
    /\ LoopEnded
    /\ Len(run_scrapes) = 2
    /\ run_scrapes[1].result # <<>>
    /\ run_scrapes[2].result # <<>>
    /\ ~HasPath(run_scrapes[1])
    /\ HasPath(run_scrapes[2])
    /\ Len(all_coupons) = Len(run_scrapes[2].result)
    /\ successful_categories = 1

\* ------------------------------------------------------ validator runs
\* a div[role='button'] of the page, inside div.grid.grid-cols-1 or not
Div(in_grid, block) == [in_grid |-> in_grid, block |-> block]

\* a div[role='button'] that is no coupon block
PlainButton == Block(Missing, Missing, Missing)

DivPool ==
    {Div(TRUE, b) : b \in {FooBlock, BarBlock, NoDescriptionBlock}}
        \cup {Div(FALSE, PlainButton)}

\* grid.query_selector_all("div[role='button']"): document positions
GridButtons(divs) ==
    LET InGrid(i) == divs[i].in_grid
    IN SelectSeq([i \in 1..Len(divs) |-> i], InGrid)

\* page.query_selector_all("div[role='button']"): document positions
PageButtons(divs) == [i \in 1..Len(divs) |-> i]

\* what _extract_coupons finds on the page
GridContent(divs) ==
    IF GridButtons(divs) = <<>> THEN NoGrid
    ELSE Grid([k \in 1..Len(GridButtons(divs)) |-> divs[GridButtons(divs)[k]].block])

InitValidate ==
    /\ vl_page \in SeqsUpTo(DivPool, MaxDivs)
    /\ vl_pc = "ready"
    /\ vl_file = NoCouponFile
    /\ vl_outcome = "none"
    /\ vl_block = 0
    /\ TreeIdle /\ DiscIdle /\ RetryIdle /\ ExtractIdle /\ RebuildIdle /\ RunIdle

\* scrape_single_main(): the page loads unblocked at the first attempt; a
\* result that is not empty is saved to data/extracted_coupons.json
ScrapeSingle ==
    /\ vl_pc = "ready"
    /\ LET result == _extract_data(GridContent(vl_page))
       IN vl_file' = IF result # <<>> THEN [written |-> TRUE, content |-> result]
                     ELSE vl_file
    /\ vl_pc' = "scraped"
    /\ UNCHANGED <<vl_page, vl_outcome, vl_block>>
    /\ UNCHANGED <<treeVars, discVars, retryVars, extractVars, rebuildVars, runVars>>

\* validate_first_coupon() up to the selection of coupon_block, on a fresh
\* rendering of the same page
Validate ==
    /\ vl_pc = "scraped"
    /\ vl_pc' = "done"
    /\ IF ~vl_file.written
       THEN vl_outcome' = "no_file" /\ vl_block' = 0
       ELSE IF vl_file.content = <<>>
       THEN vl_outcome' = "no_coupons" /\ vl_block' = 0
       ELSE LET button_index == vl_file.content[1].button_index
                coupon_blocks == PageButtons(vl_page)
            IN IF button_index >= Len(coupon_blocks)
               THEN vl_outcome' = "out_of_range" /\ vl_block' = 0
               ELSE vl_outcome' = "selected" /\ vl_block' = coupon_blocks[button_index + 1]
    /\ UNCHANGED <<vl_page, vl_file>>
    /\ UNCHANGED <<treeVars, discVars, retryVars, extractVars, rebuildVars, runVars>>

NextValidate == ScrapeSingle \/ Validate

SpecValidate == InitValidate /\ [][NextValidate]_vars

\* ---------------------------------------------------- validator claims
\* the div the extractor numbered button_index
ExtractorBlock(divs, button_index) == GridButtons(divs)[button_index + 1]

\* C27: on the same page in the same DOM order, the div the validator
\* selects with a stored button_index is the div the extractor gave that
\* index to, and so for the index of every saved coupon; no stored index
\* is out of the validator's range.
C27_SameIndexBase ==
    /\ vl_outcome # "out_of_range"
    /\ vl_outcome = "selected" =>
          vl_block = ExtractorBlock(vl_page, vl_file.content[1].button_index)
    /\ vl_pc \in {"scraped", "done"} =>
          \A k \in 1..Len(vl_file.content) :
              LET button_index == vl_file.content[k].button_index
              IN /\ button_index < Len(PageButtons(vl_page))
                 /\ PageButtons(vl_page)[button_index + 1]
                      = ExtractorBlock(vl_page, button_index)

====
